---- MODULE Spec2Model ----
(***************************************************************************)
(* Model of the two scripts of the repository:                             *)
(*   apps/portfolio/decimate.py       region-weighted mesh decimation      *)
(*   apps/workout/add_files_to_xcode.py  registering files in a project    *)
(*                                                                         *)
(* Real numbers are kept exact as integer numerators over a common         *)
(* denominator Den: a cutoff c is the integer c*Den, a threshold t the     *)
(* integer t*Den, a vertex coordinate y is an integer.                     *)
(***************************************************************************)
EXTENDS Integers, Sequences, FiniteSets

\* ---------------------------------------------------------------- bounds
MaxVerts == 2       \* vertices of a drawn mesh (the cube below has 8)
MaxMeshes == 2      \* mesh objects in the imported scene
MaxFaces == 2       \* polygons of a mesh
HalfDen == 1        \* Den = 2 * HalfDen, so that 0.5 is always a cutoff

Den == 2 * HalfDen
Coords == {0, 1, 2}
\* cutoffs from below 0 to above 1: the script validates nothing
Cutoffs == (0 - 1) .. (Den + 1)
\* ratios in (0, 1]: the smallest step, one half, and 1.0
Ratios == {1, HalfDen, Den}

\* the cube of the end-to-end scenario: 8 vertices spanning y in [0, 2]
CubeYs == <<0, 0, 0, 0, 2, 2, 2, 2>>

RECURSIVE SeqsUpTo(_)
SeqsUpTo(n) ==
    IF n = 0 THEN {<<>>}
    ELSE LET S == SeqsUpTo(n - 1)
         IN S \cup {Append(s, y) : s \in {t \in S : Len(t) = n - 1}, y \in Coords}

\* the vertex lists (y coordinates, by vertex index + 1) a mesh may have
Meshes == SeqsUpTo(MaxVerts) \cup {CubeYs}

VARIABLES
    pc,              \* position of the decimate script
    body_ratio, face_ratio, face_cutoff_y,   \* argv[2..4]
    nMeshes,         \* len(mesh_objects)
    idx,             \* index of obj in mesh_objects (0-based)
    verts,           \* mesh.vertices of obj, as their y coordinates
    polygons,        \* len(obj.data.polygons), mutated by the modifiers
    original_faces, after_body, new_faces,
    min_y, max_y, y_range, face_threshold,
    groups,          \* names of obj.vertex_groups
    face_verts, body_verts,
    log,             \* per mesh: the steps applied to it so far
    exported,        \* the output file was written
    error            \* the exception that ended the run, or "none"

dvars == <<pc, body_ratio, face_ratio, face_cutoff_y, nMeshes, idx, verts,
           polygons, original_faces, after_body, new_faces, min_y, max_y,
           y_range, face_threshold, groups, face_verts, body_verts, log,
           exported, error>>

VARIABLES
    xpc,             \* position of add_files_to_xcode.py
    runNo,           \* which execution of the script this is
    projExists,      \* PROJECT_PATH.exists()
    onDisk,          \* the NEW_FILES that exist under WATCH_APP_DIR
    savedProject,    \* base names of the files in project.pbxproj on disk
    loaded,          \* the project as XcodeProject.load returned it
    project,         \* the XcodeProject object in memory
    fileIdx,         \* position of the loop over NEW_FILES
    added_count, skipped_count,
    addedFiles,      \* files add_file accepted in this run
    addFailed,       \* files add_file raised for in this run
    saveCalled,      \* project.save() was called in this run
    saved,           \* project.save() returned in this run
    ret,             \* what add_files_to_project returned, or "none"
    built,           \* verify_build was called in this run
    buildOk,         \* what verify_build returned
    exitCode,        \* exit status of the run, NoValue while it runs
    prev             \* the finished runs, oldest first

xvars == <<xpc, runNo, projExists, onDisk, savedProject, loaded, project,
           fileIdx, added_count, skipped_count, addedFiles, addFailed,
           saveCalled, saved, ret, built, buildOk, exitCode, prev>>

vars == <<dvars, xvars>>

NoValue == 0 - 1

\* ------------------------------------------------------- pure functions
RECURSIVE SeqMin(_)
SeqMin(s) ==
    IF Len(s) = 1 THEN s[1]
    ELSE LET m == SeqMin(Tail(s)) IN IF s[1] < m THEN s[1] ELSE m

RECURSIVE SeqMax(_)
SeqMax(s) ==
    IF Len(s) = 1 THEN s[1]
    ELSE LET m == SeqMax(Tail(s)) IN IF s[1] > m THEN s[1] ELSE m

\* variant: min(..., default=0) and max(..., default=0), which do not raise
BoundsOfDefault(vs) ==
    IF Len(vs) = 0
    THEN [raised |-> FALSE, min |-> 0, max |-> 0]
    ELSE [raised |-> FALSE, min |-> SeqMin(vs), max |-> SeqMax(vs)]

\* lines 38-39: min() and max() of an empty sequence raise ValueError
BoundsOf(vs) ==
    IF Len(vs) = 0
    THEN [raised |-> TRUE, min |-> NoValue, max |-> NoValue]
    ELSE [raised |-> FALSE, min |-> SeqMin(vs), max |-> SeqMax(vs)]

\* variant: the cutoff taken as an absolute y, not relative to the mesh
FaceThresholdAbsolute(maxy, yrange, cutoff) == cutoff

\* variant: the cutoff measured from the maximum end, without the 1 - cutoff
FaceThresholdFromTop(maxy, yrange, cutoff) == maxy * Den - yrange * cutoff

\* face_threshold = max_y - (y_range * (1 - face_cutoff_y)), times Den
FaceThreshold(maxy, yrange, cutoff) == maxy * Den - yrange * (Den - cutoff)

\* variant: a strict comparison
IsFaceStrict(y, threshold) == y * Den > threshold

\* v.co.y >= face_threshold
IsFace(y, threshold) == y * Den >= threshold

\* the classification loop: v.index of the vertices taken / not taken
RECURSIVE FaceVerts(_, _, _)
FaceVerts(vs, threshold, i) ==
    IF i > Len(vs) THEN <<>>
    ELSE IF IsFace(vs[i], threshold)
         THEN <<i - 1>> \o FaceVerts(vs, threshold, i + 1)
         ELSE FaceVerts(vs, threshold, i + 1)

\* variant: a second test "v.co.y <= face_threshold" instead of the else
RECURSIVE BodyVertsOverlap(_, _, _)
BodyVertsOverlap(vs, threshold, i) ==
    IF i > Len(vs) THEN <<>>
    ELSE IF vs[i] * Den <= threshold
         THEN <<i - 1>> \o BodyVertsOverlap(vs, threshold, i + 1)
         ELSE BodyVertsOverlap(vs, threshold, i + 1)

RECURSIVE BodyVerts(_, _, _)
BodyVerts(vs, threshold, i) ==
    IF i > Len(vs) THEN <<>>
    ELSE IF IsFace(vs[i], threshold)
         THEN BodyVerts(vs, threshold, i + 1)
         ELSE <<i - 1>> \o BodyVerts(vs, threshold, i + 1)

\* variant: the body ratio hard-wired to one half
ModBodyRatioFixed == HalfDen

\* the ratio each modifier is given
ModBodyRatio == body_ratio
ModFaceRatio == face_ratio

\* the external COLLAPSE decimation applied to n polygons with a ratio:
\* never more polygons than before, nothing removed at ratio 1.0, and a
\* result clamped by the topology instead of an error
Decimate(n, ratio) == IF ratio >= Den THEN {n} ELSE 0 .. n

Range(s) == {s[i] : i \in 1 .. Len(s)}

\* ---------------------------------------------------------------- steps
\* a step applied to the current mesh, with the ratio it was given
Logged(step, ratio) == log' = [log EXCEPT ![idx + 1] = Append(@, <<step, ratio>>)]

\* variant: the body pass left out
AfterClassifySkipsBody == "face"

\* the statement reached after the classification, after each modifier
AfterClassify == "body"
AfterBody == "face"
AfterFace == "report"

\* variant: the loop body in a try/except that goes on with the next mesh
RaiseSwallowed(e) ==
    /\ pc' = "loop"
    /\ error' = e
    /\ idx' = idx + 1

\* an uncaught exception ends the script
Raise(e) ==
    /\ pc' = "failed"
    /\ error' = e
    /\ idx' = idx

DInit ==
    /\ pc = "start"
    /\ body_ratio \in Ratios
    /\ face_ratio \in Ratios
    /\ face_cutoff_y \in Cutoffs
    /\ nMeshes = 0
    /\ idx = 0
    /\ verts = <<>>
    /\ polygons = 0
    /\ original_faces = NoValue
    /\ after_body = NoValue
    /\ new_faces = NoValue
    /\ min_y = NoValue
    /\ max_y = NoValue
    /\ y_range = NoValue
    /\ face_threshold = NoValue
    /\ groups = {}
    /\ face_verts = <<>>
    /\ body_verts = <<>>
    /\ log = <<>>
    /\ exported = FALSE
    /\ error = "none"

\* lines 18-24: import the scene, collect the mesh objects
ImportScene ==
    /\ UNCHANGED xvars
    /\ pc = "start"
    /\ \/ /\ \E n \in 0 .. MaxMeshes :
               /\ nMeshes' = n
               /\ log' = [i \in 1 .. n |-> <<>>]
          /\ pc' = "loop"
          /\ error' = error
       \/ /\ pc' = "failed"
          /\ error' = "ImportError"
          /\ UNCHANGED <<nMeshes, log>>
    /\ UNCHANGED <<body_ratio, face_ratio, face_cutoff_y, idx, verts, polygons,
                   original_faces, after_body, new_faces, min_y, max_y, y_range,
                   face_threshold, groups, face_verts, body_verts, exported>>

\* lines 26-34: the next obj of the loop; its mesh data is read here.  The
\* locals left by the previous iteration are dead (each is assigned again
\* before it is read), so they are shown as unassigned.
BeginMesh ==
    /\ UNCHANGED xvars
    /\ pc = "loop"
    /\ idx < nMeshes
    /\ verts' \in Meshes
    /\ polygons' \in 0 .. MaxFaces
    /\ original_faces' = polygons'
    /\ groups' = {}
    /\ after_body' = NoValue
    /\ new_faces' = NoValue
    /\ min_y' = NoValue
    /\ max_y' = NoValue
    /\ y_range' = NoValue
    /\ face_threshold' = NoValue
    /\ face_verts' = <<>>
    /\ body_verts' = <<>>
    /\ pc' = "bounds"
    /\ UNCHANGED <<body_ratio, face_ratio, face_cutoff_y, nMeshes, idx, log,
                   exported, error>>

\* lines 36-41: min() of an empty sequence raises ValueError
ComputeThreshold ==
    /\ UNCHANGED xvars
    /\ pc = "bounds"
    /\ IF BoundsOf(verts).raised
       THEN /\ Raise("ValueError")
            /\ UNCHANGED <<min_y, max_y, y_range, face_threshold>>
       ELSE /\ min_y' = BoundsOf(verts).min
            /\ max_y' = BoundsOf(verts).max
            /\ y_range' = max_y' - min_y'
            /\ face_threshold' = FaceThreshold(max_y', y_range', face_cutoff_y)
            /\ pc' = "classify"
            /\ UNCHANGED <<idx, error>>
    /\ UNCHANGED <<body_ratio, face_ratio, face_cutoff_y, nMeshes, verts,
                   polygons, original_faces, after_body, new_faces, groups,
                   face_verts, body_verts, log, exported>>

\* lines 46-59: the two vertex groups and the classification loop
Classify ==
    /\ UNCHANGED xvars
    /\ pc = "classify"
    /\ groups' = {"Face", "Body"}
    /\ face_verts' = FaceVerts(verts, face_threshold, 1)
    /\ body_verts' = BodyVerts(verts, face_threshold, 1)
    /\ Logged("Partition", NoValue)
    /\ pc' = AfterClassify
    /\ UNCHANGED <<body_ratio, face_ratio, face_cutoff_y, nMeshes, idx, verts,
                   polygons, original_faces, after_body, new_faces, min_y, max_y,
                   y_range, face_threshold, exported, error>>

\* lines 63-73: the DecimateBody modifier is applied, or the operator raises
DecimateBody ==
    /\ UNCHANGED xvars
    /\ pc = "body"
    /\ \/ /\ polygons' \in Decimate(polygons, ModBodyRatio)
          /\ after_body' = polygons'
          /\ Logged("DecimateBody", ModBodyRatio)
          /\ pc' = AfterBody
          /\ UNCHANGED <<idx, error>>
       \/ /\ Raise("RuntimeError")
          /\ UNCHANGED <<polygons, after_body, log>>
    /\ UNCHANGED <<body_ratio, face_ratio, face_cutoff_y, nMeshes, verts,
                   original_faces, new_faces, min_y, max_y, y_range,
                   face_threshold, groups, face_verts, body_verts, exported>>

\* lines 75-80: the DecimateFace modifier is applied, or the operator raises
DecimateFace ==
    /\ UNCHANGED xvars
    /\ pc = "face"
    /\ \/ /\ polygons' \in Decimate(polygons, ModFaceRatio)
          /\ Logged("DecimateFace", ModFaceRatio)
          /\ pc' = AfterFace
          /\ UNCHANGED <<idx, error>>
       \/ /\ Raise("RuntimeError")
          /\ UNCHANGED <<polygons, log>>
    /\ UNCHANGED <<body_ratio, face_ratio, face_cutoff_y, nMeshes, verts,
                   original_faces, after_body, new_faces, min_y, max_y, y_range,
                   face_threshold, groups, face_verts, body_verts, exported>>

\* lines 82-85: 100*new_faces/original_faces divides by zero for a mesh
\* without polygons.  When the iteration ends the locals that describe the
\* mesh's vertices are dead and are shown as unassigned.
Report ==
    /\ UNCHANGED xvars
    /\ pc = "report"
    /\ new_faces' = polygons
    /\ IF original_faces = 0
       THEN /\ Raise("ZeroDivisionError")
            /\ UNCHANGED <<verts, min_y, max_y, y_range, face_threshold,
                           groups, face_verts, body_verts>>
       ELSE /\ idx' = idx + 1
            /\ pc' = "loop"
            /\ error' = error
            /\ verts' = <<>>
            /\ min_y' = NoValue
            /\ max_y' = NoValue
            /\ y_range' = NoValue
            /\ face_threshold' = NoValue
            /\ groups' = {}
            /\ face_verts' = <<>>
            /\ body_verts' = <<>>
    /\ UNCHANGED <<body_ratio, face_ratio, face_cutoff_y, nMeshes, polygons,
                   original_faces, after_body, log, exported>>

\* lines 87-89: after the loop
Export ==
    /\ UNCHANGED xvars
    /\ pc = "loop"
    /\ idx = nMeshes
    /\ \/ /\ exported' = TRUE
          /\ pc' = "done"
          /\ error' = error
       \/ /\ pc' = "failed"
          /\ error' = "ExportError"
          /\ exported' = exported
    /\ UNCHANGED <<body_ratio, face_ratio, face_cutoff_y, nMeshes, idx, verts,
                   polygons, original_faces, after_body, new_faces, min_y, max_y,
                   y_range, face_threshold, groups, face_verts, body_verts, log>>

\* the script is not running
DIdle ==
    /\ pc = "idle"
    /\ body_ratio = Den
    /\ face_ratio = Den
    /\ face_cutoff_y = HalfDen
    /\ nMeshes = 0
    /\ idx = 0
    /\ verts = <<>>
    /\ polygons = 0
    /\ original_faces = NoValue
    /\ after_body = NoValue
    /\ new_faces = NoValue
    /\ min_y = NoValue
    /\ max_y = NoValue
    /\ y_range = NoValue
    /\ face_threshold = NoValue
    /\ groups = {}
    /\ face_verts = <<>>
    /\ body_verts = <<>>
    /\ log = <<>>
    /\ exported = FALSE
    /\ error = "none"

\* ------------------------------------------------- add_files_to_xcode.py
NumFiles == 2       \* entries of NEW_FILES taken (their base names differ)
MaxRuns == 2        \* executions of the script, one directly after the other

\* NEW_FILES, each entry standing for its base name
NEW_FILES == [i \in 1 .. NumFiles |-> i]
Files == Range(NEW_FILES)

\* the locals of add_files_to_project and main before a run
FreshRun ==
    /\ loaded' = {}
    /\ project' = {}
    /\ fileIdx' = 1
    /\ added_count' = 0
    /\ skipped_count' = 0
    /\ addedFiles' = {}
    /\ addFailed' = {}
    /\ saveCalled' = FALSE
    /\ saved' = FALSE
    /\ ret' = "none"
    /\ built' = FALSE
    /\ buildOk' = FALSE
    /\ exitCode' = NoValue

XInit ==
    /\ xpc = "main"
    /\ runNo = 1
    /\ projExists \in BOOLEAN
    /\ onDisk \in SUBSET Files
    /\ savedProject \in SUBSET Files
    /\ loaded = {}
    /\ project = {}
    /\ fileIdx = 1
    /\ added_count = 0
    /\ skipped_count = 0
    /\ addedFiles = {}
    /\ addFailed = {}
    /\ saveCalled = FALSE
    /\ saved = FALSE
    /\ ret = "none"
    /\ built = FALSE
    /\ buildOk = FALSE
    /\ exitCode = NoValue
    /\ prev = <<>>

XIdle ==
    /\ xpc = "idle"
    /\ runNo = 0
    /\ projExists = FALSE
    /\ onDisk = {}
    /\ savedProject = {}
    /\ loaded = {}
    /\ project = {}
    /\ fileIdx = 1
    /\ added_count = 0
    /\ skipped_count = 0
    /\ addedFiles = {}
    /\ addFailed = {}
    /\ saveCalled = FALSE
    /\ saved = FALSE
    /\ ret = "none"
    /\ built = FALSE
    /\ buildOk = FALSE
    /\ exitCode = NoValue
    /\ prev = <<>>

\* line 73: full_path.exists()
ExistsOnDisk(f) == f \in onDisk

\* lines 78-79: project.get_files_by_name(full_path.name) is non-empty
AlreadyInProject(f) == f \in project

\* variant: if added_count >= 0
SaveAlways == added_count >= 0

\* line 95: if added_count > 0
SaveNeeded == added_count > 0

\* lines 53-68: the project file is missing, or load raises, or it loads
OpenProject ==
    /\ UNCHANGED dvars
    /\ xpc = "main"
    /\ \/ /\ ~projExists
          /\ ret' = "False"
          /\ xpc' = "returned"
          /\ UNCHANGED <<loaded, project>>
       \/ /\ projExists
          /\ ret' = "False"
          /\ xpc' = "returned"
          /\ UNCHANGED <<loaded, project>>
       \/ /\ projExists
          /\ loaded' = savedProject
          /\ project' = savedProject
          /\ xpc' = "files"
          /\ ret' = ret
    /\ UNCHANGED <<runNo, projExists, onDisk, savedProject, fileIdx, added_count,
                   skipped_count, addedFiles, addFailed, saveCalled, saved, built,
                   buildOk, exitCode, prev>>

\* lines 70-92: one iteration of the loop over NEW_FILES
ProcessFile ==
    /\ UNCHANGED dvars
    /\ xpc = "files"
    /\ fileIdx <= Len(NEW_FILES)
    /\ LET f == NEW_FILES[fileIdx] IN
       \/ /\ ~ExistsOnDisk(f)
          /\ UNCHANGED <<project, added_count, skipped_count, addedFiles, addFailed>>
       \/ /\ ExistsOnDisk(f)
          /\ AlreadyInProject(f)
          /\ skipped_count' = skipped_count + 1
          /\ UNCHANGED <<project, added_count, addedFiles, addFailed>>
       \/ /\ ExistsOnDisk(f)
          /\ ~AlreadyInProject(f)
          /\ project' = project \cup {f}
          /\ added_count' = added_count + 1
          /\ addedFiles' = addedFiles \cup {f}
          /\ UNCHANGED <<skipped_count, addFailed>>
       \/ /\ ExistsOnDisk(f)
          /\ ~AlreadyInProject(f)
          /\ addFailed' = addFailed \cup {f}
          /\ UNCHANGED <<project, added_count, skipped_count, addedFiles>>
    /\ fileIdx' = fileIdx + 1
    /\ UNCHANGED <<xpc, runNo, projExists, onDisk, savedProject, loaded,
                   saveCalled, saved, ret, built, buildOk, exitCode, prev>>

\* lines 94-105: save when something was added; a failing save returns False
SaveProject ==
    /\ UNCHANGED dvars
    /\ xpc = "files"
    /\ fileIdx > Len(NEW_FILES)
    /\ \/ /\ SaveNeeded
          /\ saveCalled' = TRUE
          /\ saved' = TRUE
          /\ savedProject' = project
          /\ ret' = "True"
       \/ /\ SaveNeeded
          /\ saveCalled' = TRUE
          /\ ret' = "False"
          /\ UNCHANGED <<saved, savedProject>>
       \/ /\ ~SaveNeeded
          /\ ret' = "True"
          /\ UNCHANGED <<saveCalled, saved, savedProject>>
    /\ xpc' = "returned"
    /\ UNCHANGED <<runNo, projExists, onDisk, loaded, project, fileIdx,
                   added_count, skipped_count, addedFiles, addFailed, built,
                   buildOk, exitCode, prev>>

\* lines 157-160: main exits with 1 when add_files_to_project returned False
MainAfterAdd ==
    /\ UNCHANGED dvars
    /\ xpc = "returned"
    /\ IF ret = "False"
       THEN /\ exitCode' = 1
            /\ xpc' = "exited"
       ELSE /\ exitCode' = exitCode
            /\ xpc' = "verify"
    /\ UNCHANGED <<runNo, projExists, onDisk, savedProject, loaded, project,
                   fileIdx, added_count, skipped_count, addedFiles, addFailed,
                   saveCalled, saved, ret, built, buildOk, prev>>

\* lines 108-148 and 162-169: xcodebuild succeeds, or fails, times out, raises
VerifyBuild ==
    /\ UNCHANGED dvars
    /\ xpc = "verify"
    /\ built' = TRUE
    /\ \/ /\ buildOk' = TRUE
          /\ exitCode' = 0
       \/ /\ buildOk' = FALSE
          /\ exitCode' = 1
    /\ xpc' = "exited"
    /\ UNCHANGED <<runNo, projExists, onDisk, savedProject, loaded, project,
                   fileIdx, added_count, skipped_count, addedFiles, addFailed,
                   saveCalled, saved, ret, prev>>

\* what a finished run leaves for the claims about the run after it
RunRecord ==
    [ret |-> ret, addedFiles |-> addedFiles, addFailed |-> addFailed,
     saveCalled |-> saveCalled, saved |-> saved, exitCode |-> exitCode]

\* the script is executed again; the disk is as the last run left it
RunAgain ==
    /\ UNCHANGED dvars
    /\ xpc = "exited"
    /\ runNo < MaxRuns
    /\ prev' = Append(prev, RunRecord)
    /\ runNo' = runNo + 1
    /\ FreshRun
    /\ xpc' = "main"
    /\ UNCHANGED <<projExists, onDisk, savedProject>>

Init == DInit /\ XIdle

Next ==
    \/ ImportScene
    \/ BeginMesh
    \/ ComputeThreshold
    \/ Classify
    \/ DecimateBody
    \/ DecimateFace
    \/ Report
    \/ Export

Spec == Init /\ [][Next]_vars

XcodeInit == XInit /\ DIdle

XcodeNext ==
    \/ OpenProject
    \/ ProcessFile
    \/ SaveProject
    \/ MainAfterAdd
    \/ VerifyBuild
    \/ RunAgain

XcodeSpec == XcodeInit /\ [][XcodeNext]_vars

\* ================================================================ claims

InMesh == pc \in {"classify", "body", "face", "report"}
Classified == pc \in {"body", "face", "report"}

\* the steps of one mesh in the order of the script, with their ratios
Expected ==
    <<<<"Partition", NoValue>>, <<"DecimateBody", body_ratio>>,
      <<"DecimateFace", face_ratio>>>>

IsPrefix(s, t) == Len(s) <= Len(t) /\ \A i \in 1 .. Len(s) : s[i] = t[i]

Flat(vs) == Len(vs) > 0 /\ \A i \in 1 .. Len(vs) : vs[i] = vs[1]

Indices(vs) == {i - 1 : i \in 1 .. Len(vs)}

\* C1: after the classification loop the Face and Body index lists are
\* disjoint, no index occurs twice, and together they hold every vertex
\* index of the mesh.
C1_Partition ==
    Classified =>
        /\ Range(face_verts) \cap Range(body_verts) = {}
        /\ Range(face_verts) \cup Range(body_verts) = Indices(verts)
        /\ Len(face_verts) + Len(body_verts) = Len(verts)

C1_Witness ==
    /\ pc = "body"
    /\ Len(verts) >= 2
    /\ face_verts # <<>>
    /\ body_verts # <<>>

\* C2: the threshold is max_y - (max_y - min_y) * (1 - face_cutoff) of the
\* mesh's own extremes; a vertex is Face iff its y >= threshold, and Body
\* otherwise; the cube with cutoff 0.5 has threshold 1.0 and its top four
\* vertices as Face.
C2_Threshold ==
    /\ InMesh =>
          face_threshold =
              SeqMax(verts) * Den
                  - (SeqMax(verts) - SeqMin(verts)) * (Den - face_cutoff_y)
    /\ Classified =>
          \A i \in 1 .. Len(verts) :
              /\ (i - 1) \in Range(face_verts) <=> verts[i] * Den >= face_threshold
              /\ (i - 1) \in Range(body_verts) <=> verts[i] * Den < face_threshold
    /\ (Classified /\ verts = CubeYs /\ 2 * face_cutoff_y = Den) =>
          /\ face_threshold = 1 * Den
          /\ face_verts = <<4, 5, 6, 7>>
          /\ body_verts = <<0, 1, 2, 3>>

C2_Witness ==
    /\ pc = "body"
    /\ verts = CubeYs
    /\ 2 * face_cutoff_y = Den
    /\ face_verts = <<4, 5, 6, 7>>

\* the steps logged for each mesh, by position of the script
C3_Inv ==
    \A i \in 1 .. Len(log) :
        /\ IsPrefix(log[i], Expected)
        /\ i < idx + 1 => log[i] = Expected
        /\ i > idx + 1 => log[i] = <<>>
        /\ (i = idx + 1 /\ pc \in {"bounds", "classify"}) => Len(log[i]) = 0
        /\ (i = idx + 1 /\ pc = "body") => Len(log[i]) = 1
        /\ (i = idx + 1 /\ pc = "face") => Len(log[i]) = 2
        /\ (i = idx + 1 /\ pc = "report") => Len(log[i]) = 3

C3_Step ==
    Len(log') = Len(log) =>
        \A i \in 1 .. Len(log) :
            \/ log'[i] = log[i]
            \/ /\ i = idx + 1
               /\ Len(log[i]) < 3
               /\ log'[i] = Append(log[i], Expected[Len(log[i]) + 1])

\* C3: every mesh goes Unpartitioned -> Partitioned -> BodySimplified ->
\* FullySimplified: its steps are a prefix of Partition, DecimateBody (with
\* body_ratio), DecimateFace (with face_ratio), each step appends the next
\* one to the current mesh only, and a mesh is begun only when all meshes
\* before it are FullySimplified.
C3_Order == [](C3_Inv) /\ [][C3_Step]_vars

C3_Witness ==
    /\ pc = "report"
    /\ idx = 1
    /\ log[1] = Expected
    /\ log[2] = Expected

\* what holds once an error occurred, and of an exported run
C4_Inv ==
    /\ error # "none" => pc = "failed"
    /\ pc = "failed" => ~exported
    /\ exported =>
          /\ error = "none"
          /\ \A i \in 1 .. nMeshes : log[i] = Expected

C4_Step ==
    pc = "failed" =>
        /\ pc' = "failed"
        /\ log' = log
        /\ idx' = idx
        /\ polygons' = polygons
        /\ exported' = exported

\* C4: a failure ends the run: an error leaves the script failed for good,
\* with no further step on any mesh and no export; the export is written
\* only when no error occurred and every mesh is FullySimplified.
C4_Abort == [](C4_Inv) /\ [][C4_Step]_vars

C4_Witness ==
    /\ pc = "failed"
    /\ error = "RuntimeError"
    /\ idx + 1 < nMeshes
    /\ log[idx + 2] = <<>>
    /\ ~exported

C7_Flat ==
    /\ (InMesh /\ Flat(verts)) =>
          /\ max_y = min_y
          /\ face_threshold = max_y * Den
    /\ (Classified /\ Flat(verts)) =>
          /\ Range(face_verts) = Indices(verts)
          /\ body_verts = <<>>
    /\ (pc = "report" /\ Flat(verts)) => log[idx + 1] = Expected
    /\ (pc = "failed" /\ Flat(verts)) => error # "ValueError"
    /\ (pc = "failed" /\ Flat(verts) /\ error \in {"RuntimeError", "ZeroDivisionError"}) =>
          /\ Len(log[idx + 1]) >= 1
          /\ groups = {"Face", "Body"}

C7_Witness ==
    /\ pc = "report"
    /\ Flat(verts)
    /\ Len(verts) >= 2
    /\ face_cutoff_y = 0
    /\ body_verts = <<>>

\* C8: the face count after the Body pass is <= the original one, the count
\* after the Face pass is <= the count after the Body pass, and with both
\* ratios 1.0 the count is unchanged.
C8_FaceCount ==
    /\ pc \in {"face", "report"} => after_body <= original_faces
    /\ pc = "report" => polygons <= after_body
    /\ (pc \in {"loop", "done"} /\ idx > 0) =>
          /\ new_faces <= after_body
          /\ after_body <= original_faces
    /\ (body_ratio = Den /\ face_ratio = Den) =>
          /\ pc \in {"bounds", "classify", "body", "face", "report"} =>
                polygons = original_faces
          /\ (pc \in {"loop", "done"} /\ idx > 0) => new_faces = original_faces

C8_Witness ==
    /\ pc = "report"
    /\ polygons < after_body
    /\ after_body < original_faces

\* where a mesh without vertices can be, and what the ValueError leaves
C9_Inv ==
    /\ InMesh => Len(verts) > 0
    /\ error = "ValueError" =>
          /\ pc = "failed"
          /\ Len(verts) = 0
          /\ groups = {}
          /\ log[idx + 1] = <<>>
          /\ polygons = original_faces
          /\ ~exported

C9_Step ==
    (pc = "bounds" /\ Len(verts) = 0) =>
        /\ pc' = "failed"
        /\ error' = "ValueError"

\* C9: a mesh without vertices fails at the min/max computation with no
\* vertex group created, no step applied to it and its polygons untouched,
\* and the run never exports.
C9_Empty == [](C9_Inv) /\ [][C9_Step]_vars

C9_Witness ==
    /\ pc = "failed"
    /\ error = "ValueError"
    /\ idx = 1
    /\ log[1] = Expected

Leaving == xpc \in {"returned", "verify", "exited"}

AddedOnlyIfNew ==
    /\ addedFiles \subseteq onDisk
    /\ addedFiles \cap loaded = {}
    /\ added_count = Cardinality(addedFiles)

MainSteps ==
    /\ built => ret = "True"
    /\ xpc = "exited" =>
          (exitCode = 1 <=> (ret = "False" \/ (built /\ ~buildOk)))
    /\ xpc = "exited" => exitCode \in {0, 1}

====
